---- MODULE Spec2Model ----
(***************************************************************************)
(* Model of wifiphisher/common/interfaces.py: the helpers that resolve,    *)
(* power, re-mode, re-channel and re-address wireless interfaces, and that *)
(* pick a monitor + AP interface pair.                                     *)
(*                                                                         *)
(* The operating system (pyric.pyw) is the environment.  Its device state  *)
(* (power, mode, channel, MAC of every interface) and its inventory (which *)
(* names resolve to a card, what each card supports, what the enumeration  *)
(* returns) are the variables.  Every public function of the file is one   *)
(* action; the function itself is an operator that, given the device state *)
(* and the arguments, yields the SET of outcomes the call can have, one    *)
(* per combination of success / failure of the primitives it invokes.      *)
(* Every outcome carries the trace of primitives invoked, in order.        *)
(***************************************************************************)
EXTENDS Integers, Sequences, FiniteSets, TLC

VARIABLES power, mode, channel, mac, winterfaces, devinfo, last

vars == <<power, mode, channel, mac, winterfaces, devinfo, last>>
dev == <<power, mode, channel, mac>>
env == <<winterfaces, devinfo>>

(* ------------------------------ values ------------------------------- *)

\* Python's None, for names, cards, modes and messages (all strings here).
None == "None"

\* No exception / the two exception types a call can end with.
PyricError == "pyric.error"
AttributeError == "AttributeError"

\* Interface names the callers use.  Whether a name resolves is devinfo's.
Ifaces == {"wlan0", "wlan1", "wlan2"}

\* Operating modes used as arguments (the docstring's list, cut down).
Modes == {"managed", "monitor", "AP"}

\* The wired interface of the host, and a name that is no interface at all,
\* as arguments for the internet-facing interface.
WiredIfaces == {"eth0"}
InternetArgs == {None, "eth0", "ppp9"}

\* The longest exclude list a caller passes to find_interface.
MaxExclude == 2

\* The modes find_interface is asked for.
SearchModes == {"monitor", "AP"}

\* Channels used as arguments.
Channels == {1, 6}

\* A MAC address is its six octets; the absent MAC (None) has none.
NoMac == <<>>
HwMac == <<2, 0, 0, 0, 0, 1>>
GivenMac == <<2, 0, 0, 0, 0, 2>>

\* The values random.randint(0, 255) is drawn from here: both ends.
RandomOctets == {0, 255}

(* ------------------------- context and trace ------------------------- *)

\* The device state a call runs against, and the primitives invoked so far.
Ctx == [power |-> power, mode |-> mode, channel |-> channel, mac |-> mac,
        trace |-> <<>>]

\* One invocation of a primitive (or of a function of this file) on device d:
\* what was asked (m: a mode, a: a MAC, x: an exclude list), how it ended,
\* and the power and mode of d at the time of the invocation.
Entry(c, prim, d, m, a, x, res) ==
    [prim |-> prim, dev |-> d, m |-> m, a |-> a, x |-> x, res |-> res,
     up |-> IF d \in Ifaces THEN c.power[d] ELSE FALSE,
     cur |-> IF d \in Ifaces THEN c.mode[d] ELSE None]

Log(c, e) == [c EXCEPT !.trace = Append(@, e)]

\* An outcome of a call: the context after it, what it returned, and the
\* exception that propagated out of it (None: it returned).
Ret(c, v) == [c |-> c, ret |-> v, raised |-> None]
Raise(c, exc, v) == [c |-> c, ret |-> v, raised |-> exc]

(* ------------------------- pyric.pyw primitives ----------------------- *)

\* pyw.getcard(name): the card of a wireless interface, a pyric.error for a
\* name the OS does not know as one.  A card is named after its device.
PywGetcard(c, name) ==
    IF devinfo[name].card
    THEN Ret(Log(c, Entry(c, "getcard", name, None, NoMac, <<>>, "ok")), name)
    ELSE Raise(Log(c, Entry(c, "getcard", name, None, NoMac, <<>>, "error")),
               PyricError, None)

\* pyw.validcard(card): true, false, or (any netlink error but ENODEV) a
\* pyric.error.
PywValidcard(c, card) ==
    { Ret(Log(c, Entry(c, "validcard", card, None, NoMac, <<>>, "true")), TRUE),
      Ret(Log(c, Entry(c, "validcard", card, None, NoMac, <<>>, "false")), FALSE),
      Raise(Log(c, Entry(c, "validcard", card, None, NoMac, <<>>, "error")),
            PyricError, FALSE) }

\* pyw.up(card) / pyw.down(card): the device is powered, or a pyric.error
\* leaves it as it was.
PywUp(c, card) ==
    { Ret([Log(c, Entry(c, "up", card, None, NoMac, <<>>, "ok"))
             EXCEPT !.power[card] = TRUE], TRUE),
      Raise(Log(c, Entry(c, "up", card, None, NoMac, <<>>, "error")),
            PyricError, FALSE) }

PywDown(c, card) ==
    { Ret([Log(c, Entry(c, "down", card, None, NoMac, <<>>, "ok"))
             EXCEPT !.power[card] = FALSE], TRUE),
      Raise(Log(c, Entry(c, "down", card, None, NoMac, <<>>, "error")),
            PyricError, FALSE) }

\* pyw.modeset(card, mode)
PywModeset(c, card, m) ==
    { Ret([Log(c, Entry(c, "modeset", card, m, NoMac, <<>>, "ok"))
             EXCEPT !.mode[card] = m], TRUE),
      Raise(Log(c, Entry(c, "modeset", card, m, NoMac, <<>>, "error")),
            PyricError, FALSE) }

\* pyw.chset(card, channel)
PywChset(c, card, ch) ==
    { Ret([Log(c, Entry(c, "chset", card, None, NoMac, <<>>, "ok"))
             EXCEPT !.channel[card] = ch], TRUE),
      Raise(Log(c, Entry(c, "chset", card, None, NoMac, <<>>, "error")),
            PyricError, FALSE) }

\* pyw.macget(card): the device's MAC, or a pyric.error.
PywMacget(c, card) ==
    { Ret(Log(c, Entry(c, "macget", card, None, c.mac[card], <<>>, "ok")),
          c.mac[card]),
      Raise(Log(c, Entry(c, "macget", card, None, NoMac, <<>>, "error")),
            PyricError, NoMac) }

\* pyw.macset(card, mac): the device takes the MAC, or a pyric.error leaves
\* it as it was.
PywMacset(c, card, a) ==
    { Ret([Log(c, Entry(c, "macset", card, None, a, <<>>, "ok"))
             EXCEPT !.mac[card] = a], TRUE),
      Raise(Log(c, Entry(c, "macset", card, None, a, <<>>, "error")),
            PyricError, FALSE) }

\* pyw.devmodes(card): the modes the card supports, or a pyric.error.
PywDevmodes(c, card) ==
    IF devinfo[card].modes_ok
    THEN Ret(Log(c, Entry(c, "devmodes", card, None, NoMac, <<>>, "ok")),
             devinfo[card].modes)
    ELSE Raise(Log(c, Entry(c, "devmodes", card, None, NoMac, <<>>, "error")),
               PyricError, {})

\* pyw.winterfaces(): the names of the wireless interfaces, in the order the
\* OS lists them, or a pyric.error.
PywWinterfaces(c) ==
    IF winterfaces.ok
    THEN Ret(Log(c, Entry(c, "winterfaces", None, None, NoMac, <<>>, "ok")),
             winterfaces.list)
    ELSE Raise(Log(c, Entry(c, "winterfaces", None, None, NoMac, <<>>, "error")),
               PyricError, <<>>)

\* pyw.isinterface(name): whether the OS lists the name among its network
\* interfaces, wireless or not.
PywIsinterface(c, name) ==
    LET known == name \in WiredIfaces \/ (name \in Ifaces /\ devinfo[name].card)
    IN  Ret(Log(c, Entry(c, "isinterface", name, None, NoMac, <<>>,
                         IF known THEN "true" ELSE "false")), known)

\* random.randint(0, 255), drawn as r.
RandomRandint(c, r) == Log(c, Entry(c, "randint", None, None, <<r>>, <<>>, "ok"))

(* ------------------------- get_interface_card ------------------------- *)

\* get_interface_card(name): result(status, card); the pyric.error of
\* pyw.getcard is caught.
GetInterfaceCard(c, name) ==
    LET g == PywGetcard(c, name)
    IN  IF g.raised # None
        THEN Ret(g.c, [status |-> FALSE, card |-> None])
        ELSE Ret(g.c, [status |-> TRUE, card |-> g.ret])

\* "interface_card = card; if not card: interface_card =
\* get_interface_card(interface_name).card", the opening of three setters.
ResolveCard(c, name, card) ==
    IF card = None
    THEN LET g == GetInterfaceCard(c, name) IN [c |-> g.c, card |-> g.ret.card]
    ELSE [c |-> c, card |-> card]

(* --------------------------- turn_interface --------------------------- *)

TurnInterface(c, name, on, card) ==
    LET g == ResolveCard(c, name, card)
    IN  IF g.card = None
        THEN {Ret(g.c, FALSE)}
        ELSE UNION {
               IF v.raised # None THEN {v}
               ELSE IF ~v.ret THEN {Ret(v.c, FALSE)}
               ELSE { IF p.raised # None THEN Ret(p.c, FALSE) ELSE Ret(p.c, TRUE)
                      : p \in (IF on THEN PywUp(v.c, g.card)
                                     ELSE PywDown(v.c, g.card)) }
               : v \in PywValidcard(g.c, g.card) }

(* ------------------------- set_interface_mode ------------------------- *)

\* set_interface_mode with the result of the power-down ignored: the mode
\* change is attempted whether or not the device went down.
SetInterfaceModeIgnoreDown(c, name, m, card) ==
    LET g == ResolveCard(c, name, card)
    IN  IF g.card = None
        THEN {Ret(g.c, FALSE)}
        ELSE UNION {
               IF v.raised # None THEN {v}
               ELSE IF ~v.ret THEN {Ret(v.c, FALSE)}
               ELSE UNION {
                      IF t.raised # None THEN {t}
                      ELSE UNION {
                             IF s.raised # None
                             THEN {Ret(s.c, FALSE)}
                             ELSE TurnInterface(s.c, name, TRUE, g.card)
                             : s \in PywModeset(t.c, g.card, m) }
                      : t \in TurnInterface(v.c, name, FALSE, g.card) }
               : v \in PywValidcard(g.c, g.card) }

\* set_interface_mode with the power-up moved out of the else branch: the
\* device is powered up again after a failed mode change too.
SetInterfaceModeAlwaysUp(c, name, m, card) ==
    LET g == ResolveCard(c, name, card)
    IN  IF g.card = None
        THEN {Ret(g.c, FALSE)}
        ELSE UNION {
               IF v.raised # None THEN {v}
               ELSE IF ~v.ret THEN {Ret(v.c, FALSE)}
               ELSE UNION {
                      IF t.raised # None THEN {t}
                      ELSE IF ~t.ret THEN {Ret(t.c, FALSE)}
                      ELSE UNION {
                             IF s.raised # None
                             THEN { IF u.raised # None THEN u ELSE Ret(u.c, FALSE)
                                    : u \in TurnInterface(s.c, name, TRUE, g.card) }
                             ELSE TurnInterface(s.c, name, TRUE, g.card)
                             : s \in PywModeset(t.c, g.card, m) }
                      : t \in TurnInterface(v.c, name, FALSE, g.card) }
               : v \in PywValidcard(g.c, g.card) }

SetInterfaceMode(c, name, m, card) ==
    LET g == ResolveCard(c, name, card)
    IN  IF g.card = None
        THEN {Ret(g.c, FALSE)}
        ELSE UNION {
               IF v.raised # None THEN {v}
               ELSE IF ~v.ret THEN {Ret(v.c, FALSE)}
               ELSE UNION {
                      IF t.raised # None THEN {t}
                      ELSE IF ~t.ret THEN {Ret(t.c, FALSE)}
                      ELSE UNION {
                             IF s.raised # None
                             THEN {Ret(s.c, FALSE)}
                             ELSE TurnInterface(s.c, name, TRUE, g.card)
                             : s \in PywModeset(t.c, g.card, m) }
                      : t \in TurnInterface(v.c, name, FALSE, g.card) }
               : v \in PywValidcard(g.c, g.card) }

(* ------------------------ set_interface_channel ----------------------- *)

SetInterfaceChannel(c, name, ch, card) ==
    LET g == ResolveCard(c, name, card)
    IN  IF g.card = None
        THEN {Ret(g.c, FALSE)}
        ELSE UNION {
               IF v.raised # None THEN {v}
               ELSE IF ~v.ret THEN {Ret(v.c, FALSE)}
               ELSE { IF p.raised # None THEN Ret(p.c, FALSE) ELSE Ret(p.c, TRUE)
                      : p \in PywChset(v.c, g.card, ch) }
               : v \in PywValidcard(g.c, g.card) }

(* -------------------------- set_interface_mac ------------------------- *)

\* "00:00:00:{:02x}:{:02x}:{:02x}".format(r1, r2, r3): three fixed octets,
\* then the three drawn ones.
FormatMac(rnd) == <<0, 0, 0, rnd[1], rnd[2], rnd[3]>>

\* new_mac_address = mac_address; if generate_random: new_mac_address = a
\* random one (the three draws are rnd).
NewMacAddress(mac_address, generate_random, rnd) ==
    IF generate_random THEN FormatMac(rnd) ELSE mac_address

\* The three random.randint calls, made only when generate_random.
DrawOctets(c, generate_random, rnd) ==
    IF generate_random
    THEN RandomRandint(RandomRandint(RandomRandint(c, rnd[1]), rnd[2]), rnd[3])
    ELSE c

\* The result tuple with the two addresses in each other's place.
MacResultSwapped(status, old, new) ==
    [status |-> status, old_mac_address |-> new, new_mac_address |-> old]

MacResult(status, old, new) ==
    [status |-> status, old_mac_address |-> old, new_mac_address |-> new]

\* set_interface_mac with the result of the managed-mode switch ignored: the
\* MAC is read and written whether or not the switch succeeded.
SetInterfaceMacIgnoreMode(c, name, mac_address, generate_random, rnd) ==
    LET new == NewMacAddress(mac_address, generate_random, rnd)
        g == GetInterfaceCard(DrawOctets(c, generate_random, rnd), name)
    IN  IF new = NoMac \/ ~g.ret.status
        THEN {Ret(g.c, MacResult(FALSE, NoMac, new))}
        ELSE UNION {
               IF s.raised # None THEN {Raise(s.c, s.raised, MacResult(FALSE, NoMac, new))}
               ELSE UNION {
                      IF r.raised # None
                      THEN {Ret(r.c, MacResult(FALSE, NoMac, new))}
                      ELSE { IF w.raised # None
                             THEN Ret(w.c, MacResult(FALSE, r.ret, new))
                             ELSE Ret(w.c, MacResult(TRUE, r.ret, new))
                             : w \in PywMacset(r.c, g.ret.card, new) }
                      : r \in PywMacget(s.c, g.ret.card) }
               : s \in SetInterfaceMode(g.c, name, "managed", g.ret.card) }

SetInterfaceMac(c, name, mac_address, generate_random, rnd) ==
    LET new == NewMacAddress(mac_address, generate_random, rnd)
        g == GetInterfaceCard(DrawOctets(c, generate_random, rnd), name)
    IN  IF new = NoMac \/ ~g.ret.status
        THEN {Ret(g.c, MacResult(FALSE, NoMac, new))}
        ELSE UNION {
               IF s.raised # None THEN {Raise(s.c, s.raised, MacResult(FALSE, NoMac, new))}
               ELSE IF ~s.ret THEN {Ret(s.c, MacResult(FALSE, NoMac, new))}
               ELSE UNION {
                      IF r.raised # None
                      THEN {Ret(r.c, MacResult(FALSE, NoMac, new))}
                      ELSE { IF w.raised # None
                             THEN Ret(w.c, MacResult(FALSE, r.ret, new))
                             ELSE Ret(w.c, MacResult(TRUE, r.ret, new))
                             : w \in PywMacset(r.c, g.ret.card, new) }
                      : r \in PywMacget(s.c, g.ret.card) }
               : s \in SetInterfaceMode(g.c, name, "managed", g.ret.card) }

(* ------------------------------ has_mode ------------------------------ *)

\* has_mode with the try/except around pyw.devmodes left out.
HasModeNoCatch(c, name, m) ==
    LET g == GetInterfaceCard(c, name)
    IN  IF g.ret.status
        THEN LET d == PywDevmodes(g.c, g.ret.card)
             IN  IF d.raised # None THEN Raise(d.c, d.raised, FALSE)
                 ELSE Ret(d.c, m \in d.ret)
        ELSE Ret(g.c, m \in {})

HasMode(c, name, m) ==
    LET g == GetInterfaceCard(c, name)
    IN  IF g.ret.status
        THEN LET d == PywDevmodes(g.c, g.ret.card)
             IN  IF d.raised # None THEN Ret(d.c, m \in {})
                 ELSE Ret(d.c, m \in d.ret)
        ELSE Ret(g.c, m \in {})

(* ---------------------------- find_interface -------------------------- *)

InList(x, list) == \E k \in 1..Len(list) : list[k] = x

\* The state of the for loop of find_interface when it ends.
LoopEnd(c, interface, alternative) ==
    [c |-> c, interface |-> interface, alternative |-> alternative]

\* The for loop of find_interface from position i of the enumeration on,
\* with the alternative found so far.
RECURSIVE FindLoopNoBreak(_, _, _, _, _, _)
\* The loop without its break: it runs on after a match.
FindLoopNoBreak(c, list, i, m, exclude, alternative) ==
    IF i > Len(list)
    THEN {LoopEnd(c, None, alternative)}
    ELSE UNION {
           IF h.ret /\ ~InList(list[i], exclude)
           THEN { IF e.interface # None THEN e ELSE [e EXCEPT !.interface = list[i]]
                  : e \in FindLoopNoBreak(h.c, list, i + 1, m, exclude, alternative) }
           ELSE IF h.ret /\ alternative = None
           THEN FindLoopNoBreak(h.c, list, i + 1, m, exclude, list[i])
           ELSE FindLoopNoBreak(h.c, list, i + 1, m, exclude, alternative)
           : h \in {HasMode(c, list[i], m)} }

RECURSIVE FindLoop(_, _, _, _, _, _)
FindLoop(c, list, i, m, exclude, alternative) ==
    IF i > Len(list)
    THEN {LoopEnd(c, None, alternative)}
    ELSE UNION {
           IF h.ret /\ ~InList(list[i], exclude)
           THEN {LoopEnd(h.c, list[i], alternative)}
           ELSE IF h.ret /\ alternative = None
           THEN FindLoop(h.c, list, i + 1, m, exclude, list[i])
           ELSE FindLoop(h.c, list, i + 1, m, exclude, alternative)
           : h \in {HasMode(c, list[i], m)} }

FindResult(status, name, virtual) ==
    [status |-> status, interface_name |-> name, is_virtual |-> virtual]

\* find_interface(mode, exclude); the pyric.error of pyw.winterfaces is not
\* caught.
FindInterface(c, m, exclude) ==
    UNION {
      IF w.raised # None
      THEN {Raise(w.c, w.raised, FindResult(FALSE, None, FALSE))}
      ELSE { IF f.interface # None
             THEN Ret(f.c, FindResult(TRUE, f.interface, FALSE))
             ELSE IF f.alternative # None
             THEN Ret(f.c, FindResult(TRUE, f.alternative, TRUE))
             ELSE Ret(f.c, FindResult(FALSE, None, FALSE))
             : f \in FindLoop(w.c, w.ret, 1, m, exclude, None) }
      : w \in {PywWinterfaces(Log(c, Entry(c, "find_interface", None, m, NoMac,
                                          exclude, "call")))} }

(* --------------------------- setup_interfaces ------------------------- *)

\* An error message: its format string and the name put in it.
NoMsg == <<>>
Msg(fmt, name) == <<fmt, name>>
MsgSame == Msg("Monitor interface and AP interface can not be the same", None)
MsgNoAP == Msg("Failed to find an interface with AP mode", None)
MsgNoMonitor == Msg("Failed to find an interface with monitor mode", None)
MsgMonitorInvalid(name) == Msg("Monitor interface {} is invalid", name)
MsgAPInvalid(name) == Msg("AP interface {} is invalid", name)
MsgInternetInvalid(name) == Msg("Internet interface {} is invalid", name)

\* result_tuple(True, None, False, None, False, None, None)
NewSetupResult ==
    [status |-> TRUE, monitor_interface |-> None, monitor_virtual |-> FALSE,
     ap_interface |-> None, ap_virtual |-> FALSE, internet_interface |-> None,
     error_message |-> NoMsg]

\* "result.<field> = <value>; ...": result is a collections.namedtuple, whose
\* fields cannot be assigned; the first assignment of the group raises
\* AttributeError and result stays as it was.
SetAttrs(c, result, assignments) == Raise(c, AttributeError, result)

\* Lines 218-232: both interfaces given.
SetupBoth(c, result, mon, ap) ==
    IF mon = ap
    THEN {SetAttrs(c, result, [status |-> FALSE, error_message |-> MsgSame])}
    ELSE UNION {
           IF ~hm.ret
           THEN {SetAttrs(hm.c, result, [status |-> FALSE,
                          error_message |-> MsgMonitorInvalid(mon)])}
           ELSE { IF ~ha.ret
                  THEN SetAttrs(ha.c, result, [status |-> FALSE,
                                error_message |-> MsgAPInvalid(ap)])
                  ELSE SetAttrs(ha.c, result, [monitor_interface |-> mon,
                                ap_interface |-> ap])
                  : ha \in {HasMode(hm.c, ap, "AP")} }
           : hm \in {HasMode(c, mon, "monitor")} }

\* Lines 233-248: the monitor interface given, the AP interface searched.
SetupMonitorGiven(c, result, mon) ==
    UNION {
      IF ~hm.ret
      THEN {SetAttrs(hm.c, result, [status |-> FALSE,
                     error_message |-> MsgMonitorInvalid(mon)])}
      ELSE { IF f.raised # None THEN Raise(f.c, f.raised, result)
             ELSE IF f.ret.status
             THEN SetAttrs(f.c, result, [status |-> TRUE, monitor_interface |-> mon,
                           ap_interface |-> f.ret.interface_name,
                           ap_virtual |-> f.ret.is_virtual])
             ELSE SetAttrs(f.c, result, [status |-> FALSE, error_message |-> MsgNoAP])
             : f \in FindInterface(hm.c, "AP", <<mon>>) }
      : hm \in {HasMode(c, mon, "monitor")} }

\* Lines 249-264: the AP interface given, the monitor interface searched.
\* The message of line 263 is formatted with monitor_interface.
SetupAPGiven(c, result, mon, ap) ==
    UNION {
      IF ~ha.ret
      THEN {SetAttrs(ha.c, result, [status |-> FALSE,
                     error_message |-> MsgAPInvalid(mon)])}
      ELSE { IF f.raised # None THEN Raise(f.c, f.raised, result)
             ELSE IF f.ret.status
             THEN SetAttrs(f.c, result, [status |-> TRUE, ap_interface |-> ap,
                           monitor_interface |-> f.ret.interface_name,
                           monitor_virtual |-> f.ret.is_virtual])
             ELSE SetAttrs(f.c, result, [status |-> FALSE,
                           error_message |-> MsgNoMonitor])
             : f \in FindInterface(ha.c, "monitor", <<ap>>) }
      : ha \in {HasMode(c, ap, "AP")} }

\* Lines 265-281: neither given, both searched.
SetupNeitherGiven(c, result) ==
    UNION {
      IF fm.raised # None THEN {Raise(fm.c, fm.raised, result)}
      ELSE { IF fa.raised # None THEN Raise(fa.c, fa.raised, result)
             ELSE IF ~fm.ret.status
             THEN SetAttrs(fa.c, result, [status |-> FALSE,
                           error_message |-> MsgNoMonitor])
             ELSE IF ~fa.ret.status
             THEN SetAttrs(fa.c, result, [status |-> FALSE, error_message |-> MsgNoAP])
             ELSE SetAttrs(fa.c, result,
                           [monitor_interface |-> fm.ret.interface_name,
                            monitor_virtual |-> fm.ret.is_virtual,
                            ap_interface |-> fa.ret.interface_name,
                            ap_virtual |-> fa.ret.is_virtual])
             : fa \in FindInterface(fm.c, "AP",
                                    IF fm.ret.status THEN <<fm.ret.interface_name>>
                                                     ELSE <<>>) }
      : fm \in FindInterface(c, "monitor", <<>>) }

\* The check of the internet-facing interface, lines 283-287, and the return.
SetupInternet(c, result, inet) ==
    IF inet # None /\ result.status
    THEN { IF ~k.ret
           THEN SetAttrs(k.c, result, [status |-> FALSE,
                         error_message |-> MsgInternetInvalid(inet)])
           ELSE Ret(k.c, result)
           : k \in {PywIsinterface(c, inet)} }
    ELSE {Ret(c, result)}

SetupInterfaces(c, mon, ap, inet) ==
    UNION {
      IF b.raised # None THEN {b} ELSE SetupInternet(b.c, b.ret, inet)
      : b \in (IF mon # None /\ ap # None THEN SetupBoth(c, NewSetupResult, mon, ap)
               ELSE IF mon # None THEN SetupMonitorGiven(c, NewSetupResult, mon)
               ELSE IF ap # None THEN SetupAPGiven(c, NewSetupResult, mon, ap)
               ELSE SetupNeitherGiven(c, NewSetupResult)) }

(* ------------------------------ actions ------------------------------- *)

\* The cards a caller can pass for a name: none, or the one it resolved.
CardsFor(name) == {None} \cup (IF devinfo[name].card THEN {name} ELSE {})

\* The call ends: the device state is what the outcome left, and the call,
\* its arguments and its outcome are on record.
Finish(op, args, o) ==
    /\ power' = o.c.power
    /\ mode' = o.c.mode
    /\ channel' = o.c.channel
    /\ mac' = o.c.mac
    /\ last' = [op |-> op, args |-> args, ret |-> o.ret, raised |-> o.raised,
                trace |-> o.c.trace]
    /\ UNCHANGED env

CallGetInterfaceCard ==
    \E name \in Ifaces :
        \E o \in {GetInterfaceCard(Ctx, name)} :
            Finish("get_interface_card", [name |-> name], o)

CallTurnInterface ==
    \E name \in Ifaces, on \in BOOLEAN : \E card \in CardsFor(name) :
        \E o \in TurnInterface(Ctx, name, on, card) :
            Finish("turn_interface", [name |-> name, on |-> on, card |-> card], o)

CallSetInterfaceMode ==
    \E name \in Ifaces, m \in Modes : \E card \in CardsFor(name) :
        \E o \in SetInterfaceMode(Ctx, name, m, card) :
            Finish("set_interface_mode",
                   [name |-> name, mode |-> m, card |-> card], o)

CallSetInterfaceChannel ==
    \E name \in Ifaces, ch \in Channels : \E card \in CardsFor(name) :
        \E o \in SetInterfaceChannel(Ctx, name, ch, card) :
            Finish("set_interface_channel",
                   [name |-> name, channel |-> ch, card |-> card], o)

\* The draws of a call: three octets when a random MAC is asked for.
Draws(generate_random) ==
    IF generate_random
    THEN {<<a, b, d>> : a \in RandomOctets, b \in RandomOctets, d \in RandomOctets}
    ELSE {<<>>}

CallSetInterfaceMac ==
    \E name \in Ifaces, a \in {NoMac, GivenMac}, gen \in BOOLEAN :
        \E rnd \in Draws(gen) :
            \E o \in SetInterfaceMac(Ctx, name, a, gen, rnd) :
                Finish("set_interface_mac",
                       [name |-> name, mac_address |-> a, generate_random |-> gen], o)

\* The exclude lists a caller passes: up to MaxExclude names, no name twice.
IfaceSeq == <<"wlan0", "wlan1", "wlan2">>

RECURSIVE Pick(_, _)
Pick(S, i) ==
    IF i > Len(IfaceSeq) THEN <<>>
    ELSE (IF i \in S THEN <<IfaceSeq[i]>> ELSE <<>>) \o Pick(S, i + 1)

ExcludeArgs ==
    {Pick(S, 1) : S \in {T \in SUBSET (1..Len(IfaceSeq)) : Cardinality(T) <= MaxExclude}}

CallHasMode ==
    \E name \in Ifaces, m \in Modes :
        \E o \in {HasMode(Ctx, name, m)} :
            Finish("has_mode", [name |-> name, mode |-> m], o)

CallFindInterface ==
    \E m \in SearchModes, exclude \in ExcludeArgs :
        \E o \in FindInterface(Ctx, m, exclude) :
            Finish("find_interface", [mode |-> m, exclude |-> exclude], o)

CallSetupInterfaces ==
    \E mon \in {None} \cup Ifaces, ap \in {None} \cup Ifaces, inet \in InternetArgs :
        \E o \in SetupInterfaces(Ctx, mon, ap, inet) :
            Finish("setup_interfaces",
                   [monitor_interface |-> mon, ap_interface |-> ap,
                    internet_interface |-> inet], o)

(* --------------------------- initial states --------------------------- *)

\* What the OS knows of an interface name: whether it resolves to a card,
\* and what pyw.devmodes answers for that card (a list, or a pyric.error).
NoCard == [card |-> FALSE, modes_ok |-> FALSE, modes |-> {}]
DevInfos ==
    {NoCard}
    \cup {[card |-> TRUE, modes_ok |-> FALSE, modes |-> {}]}
    \cup {[card |-> TRUE, modes_ok |-> TRUE, modes |-> S] : S \in SUBSET {"monitor", "AP"}}

NoCall == [op |-> "none", args |-> <<>>, ret |-> FALSE, raised |-> None,
           trace |-> <<>>]

\* A host with one wireless device, wlan0, in any power state and mode; the
\* other names are unknown to the OS.
InitDevices ==
    /\ devinfo = [i \in Ifaces |->
                    IF i = "wlan0"
                    THEN [card |-> TRUE, modes_ok |-> TRUE, modes |-> {"monitor", "AP"}]
                    ELSE NoCard]
    /\ winterfaces = [ok |-> TRUE, list |-> <<"wlan0">>]
    /\ power \in [Ifaces -> BOOLEAN]
    /\ \A i \in Ifaces : ~devinfo[i].card => ~power[i]
    /\ mode \in [Ifaces -> {"managed", "monitor"}]
    /\ \A i \in Ifaces : ~devinfo[i].card => mode[i] = "managed"
    /\ channel = [i \in Ifaces |-> 1]
    /\ mac = [i \in Ifaces |-> HwMac]
    /\ last = NoCall

Init == InitDevices

\* What pyw.winterfaces can answer: some of the names, each once, in any
\* order, or a pyric.error.
Enumerations ==
    {l \in UNION {[1..n -> Ifaces] : n \in 0..Cardinality(Ifaces)} :
        \A i, j \in DOMAIN l : i # j => l[i] # l[j]}

\* A host with any inventory of wireless devices, all down and managed.
InitInventory ==
    /\ devinfo \in [Ifaces -> DevInfos]
    /\ winterfaces \in {[ok |-> TRUE, list |-> l] : l \in Enumerations}
                      \cup {[ok |-> FALSE, list |-> <<>>]}
    /\ power = [i \in Ifaces |-> FALSE]
    /\ mode = [i \in Ifaces |-> "managed"]
    /\ channel = [i \in Ifaces |-> 1]
    /\ mac = [i \in Ifaces |-> HwMac]
    /\ last = NoCall

Next ==
    \/ CallGetInterfaceCard
    \/ CallTurnInterface
    \/ CallSetInterfaceMode
    \/ CallSetInterfaceChannel

Spec == Init /\ [][Next]_vars

\* The MAC setter alone, on the same hosts.
NextMac == CallSetInterfaceMac

SpecMac == Init /\ [][NextMac]_vars

\* has_mode, on any inventory.
NextQuery == CallHasMode

SpecQuery == InitInventory /\ [][NextQuery]_vars

\* find_interface, on any inventory.
NextFind == CallFindInterface

SpecFind == InitInventory /\ [][NextFind]_vars

\* A host with any inventory of at most two wireless devices: wlan2 is not
\* known to the OS.
InitPair ==
    /\ InitInventory
    /\ devinfo["wlan2"] = NoCard
    /\ \A k \in 1..Len(winterfaces.list) : winterfaces.list[k] # "wlan2"

\* The pair setup.
NextSetup == CallSetupInterfaces

SpecSetup == InitPair /\ [][NextSetup]_vars

(* ======================= properties of the setters ===================== *)

\* The positions of a trace t at which primitive prim was invoked, and those
\* at which it ended as res.
At(t, prim) == {i \in 1..Len(t) : t[i].prim = prim}
AtRes(t, prim, res) == {i \in At(t, prim) : t[i].res = res}

ModeCall == last.op = "set_interface_mode"

\* C1: in every call of set_interface_mode, whatever the primitives do: a
\* mode change is invoked only after a power-down that succeeded, a power-up
\* only after a mode change that succeeded; after a failed power-down no mode
\* change is invoked; and the call returns true only if the mode change and
\* the power-up after it both succeeded.
C1_ModeBracketed ==
    ModeCall =>
        LET t == last.trace
        IN  /\ \A i \in At(t, "modeset") : \E j \in AtRes(t, "down", "ok") : j < i
            /\ \A i \in At(t, "up") : \E j \in AtRes(t, "modeset", "ok") : j < i
            /\ AtRes(t, "down", "error") # {} => At(t, "modeset") = {}
            /\ (last.raised = None /\ last.ret) =>
                   \E i \in AtRes(t, "modeset", "ok") :
                       \E j \in AtRes(t, "up", "ok") : i < j

\* A set_interface_mode call that went all the way and returned true.
C1_Witness ==
    /\ ModeCall /\ last.raised = None /\ last.ret
    /\ AtRes(last.trace, "down", "ok") # {}
    /\ AtRes(last.trace, "up", "ok") # {}

\* The call went down and then failed to change the mode.
ModeChangeFailed(l) ==
    /\ l.op = "set_interface_mode"
    /\ AtRes(l.trace, "down", "ok") # {}
    /\ AtRes(l.trace, "modeset", "error") # {}

\* C9: a set_interface_mode call whose power-down succeeds and whose mode
\* change then fails invokes no power-up, returns false, and leaves the
\* device powered off and in the mode it had before the call.
C9_FailedModeChangeLeavesDown ==
    [][ModeChangeFailed(last') =>
          /\ At(last'.trace, "up") = {}
          /\ last'.raised = None /\ ~last'.ret
          /\ ~power'[last'.args.name]
          /\ mode'[last'.args.name] = mode[last'.args.name]]_vars

\* A call that failed to change the mode of a device that was up, in a mode
\* other than the one asked for.
C9_Witness ==
    /\ ModeChangeFailed(last)
    /\ last.trace[Len(last.trace)].prim = "modeset"
    /\ last.trace[1].up
    /\ last.trace[Len(last.trace)].cur # last.args.mode

MacCall == last.op = "set_interface_mac"

\* C6 as claimed: the returned new_mac_address is the value each write was
\* given, and whenever a mac_address is supplied no random octet is drawn
\* and the returned new_mac_address is the supplied one.
C6_Original ==
    (MacCall /\ last.raised = None) =>
        /\ \A i \in At(last.trace, "macset") :
               last.trace[i].a = last.ret.new_mac_address
        /\ last.args.mac_address # NoMac =>
               /\ At(last.trace, "randint") = {}
               /\ last.ret.new_mac_address = last.args.mac_address

\* C6 as amended: the returned new_mac_address is the value each write was
\* given, whether or not the write succeeded; and whenever a mac_address is
\* supplied with generate_random false, no random octet is drawn and the
\* returned new_mac_address is the supplied one.
C6_NewMacIsAttempted ==
    (MacCall /\ last.raised = None) =>
        /\ \A i \in At(last.trace, "macset") :
               last.trace[i].a = last.ret.new_mac_address
        /\ (last.args.mac_address # NoMac /\ ~last.args.generate_random) =>
               /\ At(last.trace, "randint") = {}
               /\ last.ret.new_mac_address = last.args.mac_address

\* A call with a supplied address whose write was attempted and failed.
C6_Witness ==
    /\ MacCall /\ last.raised = None
    /\ last.args.mac_address = GivenMac /\ ~last.args.generate_random
    /\ AtRes(last.trace, "macset", "error") # {}
    /\ ~last.ret.status

\* The managed-mode switch of a set_interface_mac call returned true: the
\* mode was set to managed and the device powered up after it.
SwitchedToManaged(t, i) ==
    \E j \in AtRes(t, "modeset", "ok") :
        /\ t[j].m = "managed"
        /\ \E k \in AtRes(t, "up", "ok") : j < k /\ k < i

Supports(name, m) ==
    /\ devinfo[name].card
    /\ devinfo[name].modes_ok
    /\ m \in devinfo[name].modes

\* C8: has_mode(name, mode) returns true exactly when the name resolves, the
\* supported-modes query succeeds and the mode is in its answer; in every
\* other case it returns false; it never ends with an exception, invokes
\* nothing but the resolution and the query, and leaves every device as it
\* was.
C8_HasModeNeverFails ==
    [][last'.op = "has_mode" =>
          /\ last'.raised = None
          /\ last'.ret = Supports(last'.args.name, last'.args.mode)
          /\ \A i \in 1..Len(last'.trace) :
                 last'.trace[i].prim \in {"getcard", "devmodes"}
          /\ UNCHANGED dev]_vars

\* A has_mode call whose query for the modes failed.
C8_Witness ==
    /\ last.op = "has_mode" /\ last.raised = None /\ ~last.ret
    /\ AtRes(last.trace, "devmodes", "error") # {}

\* The positions of the enumeration whose interface supports mode m and is
\* (inx) or is not (~inx) in the exclude list.
Candidates(list, m, exclude, inx) ==
    {i \in 1..Len(list) : Supports(list[i], m) /\ (InList(list[i], exclude) <=> inx)}

First(S) == CHOOSE i \in S : \A j \in S : i <= j

\* C5: whenever the enumeration succeeds, find_interface(mode, exclude)
\* returns (true, X, false) for the first enumerated interface X that
\* supports the mode and is not in exclude, if there is one; else
\* (true, Y, true) for the first enumerated interface Y that supports the
\* mode and is in exclude, if there is one; else (false, None, false).  So
\* is_virtual is true exactly when the returned interface is in exclude.
C5_FirstMatchPreferred ==
    (last.op = "find_interface" /\ winterfaces.ok) =>
        LET list == winterfaces.list
            m == last.args.mode
            x == last.args.exclude
            P == Candidates(list, m, x, FALSE)
            A == Candidates(list, m, x, TRUE)
        IN  /\ last.raised = None
            /\ last.ret = IF P # {} THEN FindResult(TRUE, list[First(P)], FALSE)
                          ELSE IF A # {} THEN FindResult(TRUE, list[First(A)], TRUE)
                          ELSE FindResult(FALSE, None, FALSE)
            /\ last.ret.status =>
                   (last.ret.is_virtual <=> InList(last.ret.interface_name, x))

\* A search that fell back to the first of two excluded interfaces that
\* support the mode.
C5_Witness ==
    /\ last.op = "find_interface" /\ winterfaces.ok /\ last.raised = None
    /\ last.ret.status /\ last.ret.is_virtual
    /\ Cardinality(Candidates(winterfaces.list, last.args.mode,
                              last.args.exclude, TRUE)) = 2

(* ===================== properties of the pair setup ==================== *)

SetupCall == last.op = "setup_interfaces"

\* C2: no public operation ends with a propagating exception: every call
\* returns its result.
C2_NoExceptionPropagates == last.raised = None

FullSuccess(r, a) ==
    /\ r.status
    /\ r.monitor_interface # None
    /\ r.ap_interface # None
    /\ a.internet_interface # None => r.internet_interface = a.internet_interface
    /\ r.error_message = NoMsg

Failure(r) == ~r.status /\ r.error_message # NoMsg

\* C3: every call of setup_interfaces returns a record that is a full
\* success (status true, both interfaces set, the internet interface the
\* supplied one, no message) or a failure (status false and a message).
C3_SuccessOrFailure ==
    SetupCall =>
        /\ last.raised = None
        /\ FullSuccess(last.ret, last.args) \/ Failure(last.ret)

\* C4: with both interfaces given, setup_interfaces never searches, and it
\* fails with the "can not be the same" message if they are the same name,
\* else fails if the monitor lacks monitor mode, else fails if the AP lacks
\* AP mode, else succeeds with exactly the two given names.
C4_BothGiven ==
    (SetupCall /\ last.args.monitor_interface # None
               /\ last.args.ap_interface # None) =>
        LET mon == last.args.monitor_interface
            ap == last.args.ap_interface
            r == last.ret
        IN  /\ At(last.trace, "find_interface") = {}
            /\ At(last.trace, "winterfaces") = {}
            /\ last.raised = None
            /\ IF mon = ap THEN ~r.status /\ r.error_message = MsgSame
               ELSE IF ~Supports(mon, "monitor") THEN Failure(r)
               ELSE IF ~Supports(ap, "AP") THEN Failure(r)
               ELSE /\ r.status
                    /\ r.monitor_interface = mon
                    /\ r.ap_interface = ap

\* C7: with neither interface given (and an enumeration that succeeds), the
\* monitor search excludes nothing and the AP search excludes exactly the
\* monitor interface found; the call fails with the message naming monitor
\* mode if no interface supports monitor mode, and with the message naming
\* AP mode if one does and none supports AP mode.
C7_NeitherGiven ==
    (SetupCall /\ last.args.monitor_interface = None
               /\ last.args.ap_interface = None /\ winterfaces.ok) =>
        LET list == winterfaces.list
            t == last.trace
            calls == At(t, "find_interface")
            mons == Candidates(list, "monitor", <<>>, FALSE)
            aps == {i \in 1..Len(list) : Supports(list[i], "AP")}
        IN  /\ Cardinality(calls) = 2
            /\ \A i \in calls :
                   IF i = First(calls)
                   THEN t[i].m = "monitor" /\ t[i].x = <<>>
                   ELSE /\ t[i].m = "AP"
                        /\ t[i].x = IF mons = {} THEN <<>> ELSE <<list[First(mons)]>>
            /\ last.raised = None
            /\ mons = {} =>
                   ~last.ret.status /\ last.ret.error_message = MsgNoMonitor
            /\ (mons # {} /\ aps = {}) =>
                   ~last.ret.status /\ last.ret.error_message = MsgNoAP

====
